---------------------------- MODULE Spec2Model ----------------------------
(***************************************************************************)
(* Model of the recommendation engine of the AI video production           *)
(* calculator (src/index.tsx): the catalog DETAILED_PLATFORM_DATA, the     *)
(* hook useRecommendation (getQualityScore, getAverage,                    *)
(* calculateTimeRequirement, calculateCostPerSecondUSD, calculate) and the *)
(* input handling of CalculatorSection (handleChange).                     *)
(*                                                                         *)
(* JavaScript numbers are modelled as exact rationals <<n, d>> in lowest   *)
(* terms with d > 0; the value <<1, 0>> stands for +Infinity.  Rounding of *)
(* IEEE doubles is not modelled.                                           *)
(***************************************************************************)
EXTENDS Integers, Sequences, FiniteSets, TLC

(***************************************************************************)
(* Exact arithmetic on JavaScript numbers.                                 *)
(***************************************************************************)
RECURSIVE GCD(_, _)
GCD(a, b) == IF b = 0 THEN a ELSE GCD(b, a % b)

Abs(x) == IF x < 0 THEN 0 - x ELSE x

Sign(x) == IF x < 0 THEN -1 ELSE IF x > 0 THEN 1 ELSE 0

\* n/d with the common factor g of n and d removed and the sign carried by n
Reduce(n, d, g) ==
    IF d < 0 THEN <<0 - (n \div g), 0 - (d \div g)>> ELSE <<n \div g, d \div g>>

\* the rational n/d (d # 0) in lowest terms with a positive denominator
Q(n, d) == Reduce(n, d, GCD(Abs(n), Abs(d)))

\* an integer as a number
I(n) == <<n, 1>>

\* the number +Infinity
Infinity == <<1, 0>>

IsFinite(x) == x[2] # 0

\* x + y for finite x and y, g the greatest common divisor of the denominators
AddOver(x, y, g) == Q(x[1] * (y[2] \div g) + y[1] * (x[2] \div g), (x[2] \div g) * y[2])

\* x + y; Infinity absorbs every finite number.  A sum with an integer is
\* already in lowest terms
QAdd(x, y) ==
    IF ~IsFinite(x) \/ ~IsFinite(y) THEN Infinity
    ELSE IF x[2] = 1 THEN <<x[1] * y[2] + y[1], y[2]>>
    ELSE IF y[2] = 1 THEN <<x[1] + y[1] * x[2], x[2]>>
    ELSE AddOver(x, y, GCD(x[2], y[2]))

QNeg(x) == <<0 - x[1], x[2]>>

\* x - y for a finite y
QSub(x, y) == QAdd(x, QNeg(y))

\* x * y for finite x and y, cancelling g1 and g2 across the fractions first
MulOver(x, y, g1, g2) ==
    Q((x[1] \div g1) * (y[1] \div g2), (x[2] \div g2) * (y[2] \div g1))

\* x * y; Infinity times a positive number is Infinity (0 * Infinity never arises)
QMul(x, y) ==
    IF ~IsFinite(x) \/ ~IsFinite(y) THEN Infinity
    ELSE IF x[2] = 1 /\ y[2] = 1 THEN <<x[1] * y[1], 1>>
    ELSE MulOver(x, y, GCD(Abs(x[1]), y[2]), GCD(Abs(y[1]), x[2]))

\* x / y for a finite, non-zero y
QDiv(x, y) ==
    IF ~IsFinite(x) THEN Infinity
    ELSE QMul(x, Q(y[2], y[1]))

\* the sign of a/b - c/d (b, d > 0) by the continued fraction expansion,
\* which never multiplies two large numbers
RECURSIVE CmpFrac(_, _, _, _)
CmpFrac(a, b, c, d) ==
    LET fa == a \div b
        fc == c \div d
        ra == a % b
        rc == c % d
    IN  IF fa # fc THEN Sign(fa - fc)
        ELSE IF ra = 0 THEN (IF rc = 0 THEN 0 ELSE -1)
        ELSE IF rc = 0 THEN 1
        ELSE CmpFrac(d, rc, b, ra)

\* the sign of x - y, with Infinity above every finite number
QCmp(x, y) ==
    IF ~IsFinite(x) THEN (IF ~IsFinite(y) THEN 0 ELSE 1)
    ELSE IF ~IsFinite(y) THEN -1
    ELSE CmpFrac(x[1], x[2], y[1], y[2])

QLt(x, y) == QCmp(x, y) < 0
QLe(x, y) == QCmp(x, y) <= 0
QGt(x, y) == QCmp(x, y) > 0
QGe(x, y) == QCmp(x, y) >= 0

\* Math.min, Math.max
QMin(x, y) == IF QLe(x, y) THEN x ELSE y
QMax(x, y) == IF QGe(x, y) THEN x ELSE y

\* Math.ceil, Math.floor of a finite number, as a number
QCeil(x) == I(0 - ((0 - x[1]) \div x[2]))
QFloor(x) == I(x[1] \div x[2])

(***************************************************************************)
(* The catalog.  Display-only fields (modelName, rateLimit) are left out;  *)
(* an optional field that the source omits is omitted here too.  A cost is *)
(* a one-element array <<c>> for a number and <<lo, hi>> for an interval.  *)
(***************************************************************************)
DETAILED_PLATFORM_DATA ==
    <<
    [platformName |-> "Kling AI", apiAvailable |-> "Limited", setupDays |-> <<1, 2>>,
     techLevel |-> "beginner", plans |-> <<
       [planName |-> "Standard", monthlyCost |-> <<10, 1>>, quota |-> <<660, 1>>,
        quotaUnit |-> "credits", maxParallel |-> <<8, 1>>,
        avgTimePerClipMin |-> <<3, 2>>, options |-> <<
          [modelId |-> "kling-std-5s", maxDurationSec |-> <<5, 1>>, resolution |-> "1080p",
           audio |-> FALSE, costUnit |-> "credits", cost |-> <<<<10, 1>>>>, features |-> {"Motion Brush"}],
          [modelId |-> "kling-std-10s", maxDurationSec |-> <<10, 1>>, resolution |-> "1080p",
           audio |-> FALSE, costUnit |-> "credits", cost |-> <<<<20, 1>>>>, features |-> {"Motion Brush"}]
        >>],
       [planName |-> "Pro", monthlyCost |-> <<37, 1>>, quota |-> <<3000, 1>>,
        quotaUnit |-> "credits", maxParallel |-> <<8, 1>>,
        avgTimePerClipMin |-> <<6, 5>>, options |-> <<
          [modelId |-> "kling-pro-5s", maxDurationSec |-> <<5, 1>>, resolution |-> "1080p+",
           audio |-> TRUE, costUnit |-> "credits", cost |-> <<<<35, 1>>>>, features |-> {"Motion Brush", "Keyframe Editor"}],
          [modelId |-> "kling-pro-10s", maxDurationSec |-> <<10, 1>>, resolution |-> "1080p+",
           audio |-> TRUE, costUnit |-> "credits", cost |-> <<<<70, 1>>>>, features |-> {"Motion Brush", "Keyframe Editor"}]
        >>],
       [planName |-> "Premier", monthlyCost |-> <<92, 1>>, quota |-> <<8000, 1>>,
        quotaUnit |-> "credits", maxParallel |-> <<8, 1>>,
        avgTimePerClipMin |-> <<1, 1>>, options |-> <<
          [modelId |-> "kling-prm-5s", maxDurationSec |-> <<5, 1>>, resolution |-> "1080p+",
           audio |-> TRUE, costUnit |-> "credits", cost |-> <<<<35, 1>>>>, features |-> {"Motion Brush", "Keyframe Editor"}],
          [modelId |-> "kling-prm-10s", maxDurationSec |-> <<10, 1>>, resolution |-> "1080p+",
           audio |-> TRUE, costUnit |-> "credits", cost |-> <<<<70, 1>>>>, features |-> {"Motion Brush", "Keyframe Editor"}]
        >>]
     >>],
    [platformName |-> "Leonardo AI (Web App)", apiAvailable |-> "No", setupDays |-> <<1, 2>>,
     techLevel |-> "beginner", plans |-> <<
       [planName |-> "Apprentice", monthlyCost |-> <<10, 1>>, quota |-> <<8500, 1>>,
        quotaUnit |-> "tokens", maxParallel |-> <<5, 1>>,
        avgTimePerClipMin |-> <<3, 2>>, options |-> <<
          [modelId |-> "leo-web-m1-a", maxDurationSec |-> <<3, 1>>, resolution |-> "720p",
           audio |-> FALSE, costUnit |-> "tokens", cost |-> <<<<45, 1>>>>],
          [modelId |-> "leo-web-m2-a", maxDurationSec |-> <<5, 1>>, resolution |-> "1080p",
           audio |-> FALSE, costUnit |-> "tokens", cost |-> <<<<200, 1>>>>]
        >>],
       [planName |-> "Artisan Unlimited", monthlyCost |-> <<24, 1>>, quota |-> <<25500, 1>>,
        quotaUnit |-> "tokens", maxParallel |-> <<5, 1>>,
        avgTimePerClipMin |-> <<6, 5>>, options |-> <<
          [modelId |-> "leo-web-m1-art", maxDurationSec |-> <<3, 1>>, resolution |-> "720p",
           audio |-> FALSE, costUnit |-> "tokens", cost |-> <<<<45, 1>>>>],
          [modelId |-> "leo-web-m2-art", maxDurationSec |-> <<5, 1>>, resolution |-> "1080p",
           audio |-> FALSE, costUnit |-> "tokens", cost |-> <<<<200, 1>>>>]
        >>],
       [planName |-> "Maestro Unlimited", monthlyCost |-> <<48, 1>>, quota |-> <<60000, 1>>,
        quotaUnit |-> "tokens", maxParallel |-> <<5, 1>>,
        avgTimePerClipMin |-> <<1, 1>>, options |-> <<
          [modelId |-> "leo-web-m1-m", maxDurationSec |-> <<3, 1>>, resolution |-> "720p",
           audio |-> FALSE, costUnit |-> "tokens", cost |-> <<<<45, 1>>>>],
          [modelId |-> "leo-web-m2-m", maxDurationSec |-> <<5, 1>>, resolution |-> "1080p",
           audio |-> FALSE, costUnit |-> "tokens", cost |-> <<<<200, 1>>>>]
        >>]
     >>],
    [platformName |-> "Leonardo AI (API)", apiAvailable |-> "Yes", setupDays |-> <<1, 2>>,
     techLevel |-> "expert", plans |-> <<
       [planName |-> "API Basic", monthlyCost |-> <<9, 1>>, quota |-> <<3500, 1>>,
        quotaUnit |-> "tokens", maxParallel |-> <<5, 1>>, maxParallelAPI |-> <<5, 1>>,
        avgTimePerClipMin |-> <<3, 2>>, options |-> <<
          [modelId |-> "leo-api-motion-1-b", maxDurationSec |-> <<3, 1>>, resolution |-> "720p",
           audio |-> FALSE, costUnit |-> "tokens", cost |-> <<<<45, 1>>>>],
          [modelId |-> "leo-api-motion-2-b", maxDurationSec |-> <<5, 1>>, resolution |-> "1080p",
           audio |-> FALSE, costUnit |-> "tokens", cost |-> <<<<200, 1>>>>]
        >>],
       [planName |-> "API Standard", monthlyCost |-> <<49, 1>>, quota |-> <<25000, 1>>,
        quotaUnit |-> "tokens", maxParallel |-> <<5, 1>>, maxParallelAPI |-> <<10, 1>>,
        avgTimePerClipMin |-> <<6, 5>>, options |-> <<
          [modelId |-> "leo-api-motion-1-s", maxDurationSec |-> <<3, 1>>, resolution |-> "720p",
           audio |-> FALSE, costUnit |-> "tokens", cost |-> <<<<45, 1>>>>],
          [modelId |-> "leo-api-motion-2-s", maxDurationSec |-> <<5, 1>>, resolution |-> "1080p",
           audio |-> FALSE, costUnit |-> "tokens", cost |-> <<<<200, 1>>>>],
          [modelId |-> "veo-3-leo-std", maxDurationSec |-> <<8, 1>>, resolution |-> "720p",
           audio |-> FALSE, costUnit |-> "tokens", cost |-> <<<<2500, 1>>>>]
        >>],
       [planName |-> "API Pro", monthlyCost |-> <<299, 1>>, quota |-> <<100000, 1>>,
        quotaUnit |-> "tokens", maxParallel |-> <<5, 1>>, maxParallelAPI |-> <<20, 1>>,
        avgTimePerClipMin |-> <<1, 1>>, options |-> <<
          [modelId |-> "leo-api-motion-1-p", maxDurationSec |-> <<3, 1>>, resolution |-> "720p",
           audio |-> FALSE, costUnit |-> "tokens", cost |-> <<<<45, 1>>>>],
          [modelId |-> "leo-api-motion-2-p", maxDurationSec |-> <<5, 1>>, resolution |-> "1080p",
           audio |-> FALSE, costUnit |-> "tokens", cost |-> <<<<200, 1>>>>],
          [modelId |-> "veo-3-leo-pro", maxDurationSec |-> <<8, 1>>, resolution |-> "720p",
           audio |-> FALSE, costUnit |-> "tokens", cost |-> <<<<2500, 1>>>>]
        >>]
     >>],
    [platformName |-> "LTX Studio", apiAvailable |-> "Enterprise", setupDays |-> <<1, 1>>,
     techLevel |-> "intermediate", plans |-> <<
       [planName |-> "Lite (Monthly)", monthlyCost |-> <<15, 1>>, quota |-> <<8640, 1>>,
        quotaUnit |-> "compute_seconds", maxParallel |-> <<1, 1>>,
        avgTimePerClipMin |-> <<4, 1>>, options |-> <<
          [modelId |-> "ltx-lite-m", maxDurationSec |-> <<15, 1>>, resolution |-> "1080p+",
           audio |-> TRUE, costUnit |-> "ratio", cost |-> <<<<1, 1>>>>]
        >>],
       [planName |-> "Lite (Annual)", monthlyCost |-> <<12, 1>>, quota |-> <<8640, 1>>,
        quotaUnit |-> "compute_seconds", maxParallel |-> <<1, 1>>,
        avgTimePerClipMin |-> <<4, 1>>, options |-> <<
          [modelId |-> "ltx-lite-y", maxDurationSec |-> <<15, 1>>, resolution |-> "1080p+",
           audio |-> TRUE, costUnit |-> "ratio", cost |-> <<<<1, 1>>>>]
        >>],
       [planName |-> "Standard (Monthly)", monthlyCost |-> <<35, 1>>, quota |-> <<28800, 1>>,
        quotaUnit |-> "compute_seconds", maxParallel |-> <<1, 1>>,
        avgTimePerClipMin |-> <<19, 5>>, options |-> <<
          [modelId |-> "ltx-std-m", maxDurationSec |-> <<15, 1>>, resolution |-> "1080p+",
           audio |-> TRUE, costUnit |-> "ratio", cost |-> <<<<1, 1>>>>]
        >>],
       [planName |-> "Standard (Annual)", monthlyCost |-> <<28, 1>>, quota |-> <<28800, 1>>,
        quotaUnit |-> "compute_seconds", maxParallel |-> <<1, 1>>,
        avgTimePerClipMin |-> <<19, 5>>, options |-> <<
          [modelId |-> "ltx-std-y", maxDurationSec |-> <<15, 1>>, resolution |-> "1080p+",
           audio |-> TRUE, costUnit |-> "ratio", cost |-> <<<<1, 1>>>>]
        >>],
       [planName |-> "Pro (Monthly)", monthlyCost |-> <<125, 1>>, quota |-> <<90000, 1>>,
        quotaUnit |-> "compute_seconds", maxParallel |-> <<10, 1>>,
        avgTimePerClipMin |-> <<3, 1>>, options |-> <<
          [modelId |-> "ltx-pro-m", maxDurationSec |-> <<15, 1>>, resolution |-> "1080p+",
           audio |-> TRUE, costUnit |-> "ratio", cost |-> <<<<3, 2>>>>, features |-> {"Storyboard Export"}]
        >>],
       [planName |-> "Pro (Annual)", monthlyCost |-> <<100, 1>>, quota |-> <<90000, 1>>,
        quotaUnit |-> "compute_seconds", maxParallel |-> <<10, 1>>,
        avgTimePerClipMin |-> <<3, 1>>, options |-> <<
          [modelId |-> "ltx-pro-y", maxDurationSec |-> <<15, 1>>, resolution |-> "1080p+",
           audio |-> TRUE, costUnit |-> "ratio", cost |-> <<<<3, 2>>>>, features |-> {"Storyboard Export"}]
        >>],
       [planName |-> "Enterprise", monthlyCost |-> <<500, 1>>, quota |-> <<500000, 1>>,
        quotaUnit |-> "compute_seconds", maxParallel |-> <<20, 1>>,
        avgTimePerClipMin |-> <<5, 2>>, options |-> <<
          [modelId |-> "ltx-ent", maxDurationSec |-> <<15, 1>>, resolution |-> "4K",
           audio |-> TRUE, costUnit |-> "ratio", cost |-> <<<<2, 1>>>>, features |-> {"Storyboard Export"}]
        >>]
     >>],
    [platformName |-> "OpenAI Sora", apiAvailable |-> "Limited", setupDays |-> <<1, 2>>,
     techLevel |-> "beginner", plans |-> <<
       [planName |-> "Plus", monthlyCost |-> <<20, 1>>, quota |-> <<0, 1>>,
        quotaUnit |-> "unlimited", maxParallel |-> <<2, 1>>,
        avgTimePerClipMin |-> <<3, 2>>, options |-> <<
          [modelId |-> "sora-plus-10", maxDurationSec |-> <<10, 1>>, resolution |-> "720p",
           audio |-> FALSE, costUnit |-> "clips", cost |-> <<<<0, 1>>>>]
        >>],
       [planName |-> "Pro", monthlyCost |-> <<200, 1>>, quota |-> <<0, 1>>,
        quotaUnit |-> "unlimited", maxParallel |-> <<5, 1>>, maxParallelAPI |-> <<5, 1>>,
        avgTimePerClipMin |-> <<4, 5>>, options |-> <<
          [modelId |-> "sora-pro-20", maxDurationSec |-> <<20, 1>>, resolution |-> "1080p",
           audio |-> FALSE, costUnit |-> "clips", cost |-> <<<<0, 1>>>>]
        >>]
     >>],
    [platformName |-> "Google Veo", apiAvailable |-> "Yes", setupDays |-> <<1, 1>>,
     techLevel |-> "expert", plans |-> <<
       [planName |-> "Ultra Subscription", monthlyCost |-> <<250, 1>>, quota |-> <<12500, 1>>,
        quotaUnit |-> "credits", maxParallel |-> <<5, 1>>,
        avgTimePerClipMin |-> <<4, 5>>, options |-> <<
          [modelId |-> "veo-ultra-fast", maxDurationSec |-> <<8, 1>>, resolution |-> "1080p",
           audio |-> TRUE, costUnit |-> "credits", cost |-> <<<<20, 1>>>>, features |-> {"Audio-Video Sync"}],
          [modelId |-> "veo-ultra-qual", maxDurationSec |-> <<8, 1>>, resolution |-> "1080p",
           audio |-> TRUE, costUnit |-> "credits", cost |-> <<<<100, 1>>>>, features |-> {"Audio-Video Sync"}]
        >>],
       [planName |-> "Vertex AI API", monthlyCost |-> <<0, 1>>, quota |-> <<0, 1>>,
        quotaUnit |-> "unlimited", maxParallel |-> <<1, 1>>, maxParallelAPI |-> <<20, 1>>,
        avgTimePerClipMin |-> <<9, 5>>, options |-> <<
          [modelId |-> "veo-api-2.0", maxDurationSec |-> <<8, 1>>, resolution |-> "720p",
           audio |-> FALSE, costUnit |-> "per_second", cost |-> <<<<1, 2>>>>],
          [modelId |-> "veo-api-3.0", maxDurationSec |-> <<8, 1>>, resolution |-> "720p",
           audio |-> FALSE, costUnit |-> "per_second", cost |-> <<<<1, 2>>>>],
          [modelId |-> "veo-api-3.0-audio", maxDurationSec |-> <<8, 1>>, resolution |-> "720p",
           audio |-> TRUE, costUnit |-> "per_second", cost |-> <<<<3, 4>>>>, features |-> {"Audio-Video Sync"}]
        >>]
     >>]
    >>

(***************************************************************************)
(* The helpers of useRecommendation.                                       *)
(***************************************************************************)
\* table[key] || default
Lookup(table, key, default) ==
    IF key \in DOMAIN table /\ table[key] # I(0) THEN table[key] ELSE default

\* option.features?.includes(feature)
HasFeature(option, feature) ==
    "features" \in DOMAIN option /\ feature \in option.features

resolutionScores ==
    ("720p" :> I(7)) @@ ("1080p" :> I(8)) @@ ("1080p+" :> I(9)) @@ ("4K" :> I(10))

planHierarchy ==
    ("Personal" :> I(0)) @@ ("Lite (Annual)" :> I(0)) @@ ("Lite (Monthly)" :> I(0))
    @@ ("Plus" :> I(0)) @@ ("Apprentice" :> I(0))
    @@ ("Standard (Annual)" :> Q(1, 2)) @@ ("Standard (Monthly)" :> Q(1, 2))
    @@ ("Artisan Unlimited" :> Q(1, 2)) @@ ("API Basic" :> Q(1, 2))
    @@ ("Pro (Annual)" :> I(1)) @@ ("Pro (Monthly)" :> I(1))
    @@ ("Maestro Unlimited" :> I(1)) @@ ("API Standard" :> I(1))
    @@ ("Premier" :> Q(3, 2)) @@ ("Team" :> Q(3, 2)) @@ ("API Pro" :> Q(3, 2))
    @@ ("Vertex AI API" :> I(2)) @@ ("Ultra Subscription" :> I(2)) @@ ("Enterprise" :> I(2))

platformReputation ==
    ("Google Veo" :> Q(3, 2)) @@ ("OpenAI Sora" :> I(1)) @@ ("LTX Studio" :> Q(1, 2))
    @@ ("Leonardo AI (API)" :> I(0)) @@ ("Leonardo AI (Web App)" :> I(0))
    @@ ("Kling AI" :> Q(-1, 2))

\* getQualityScore without the ceiling of 10
getQualityScoreUnclamped(option, plan, platform) ==
    LET s1 == Lookup(resolutionScores, option.resolution, I(6))
        s2 == IF option.audio THEN QAdd(s1, Q(1, 2)) ELSE s1
        s3 == QAdd(s2, Lookup(planHierarchy, plan.planName, I(0)))
        s4 == IF HasFeature(option, "Storyboard Export") THEN QAdd(s3, I(1)) ELSE s3
        s5 == IF HasFeature(option, "Keyframe Editor") THEN QAdd(s4, Q(1, 2)) ELSE s4
        s6 == IF HasFeature(option, "Audio-Video Sync") THEN QAdd(s5, I(1)) ELSE s5
    IN  QAdd(s6, Lookup(platformReputation, platform.platformName, I(0)))

getQualityScore(option, plan, platform) ==
    LET s1 == Lookup(resolutionScores, option.resolution, I(6))
        s2 == IF option.audio THEN QAdd(s1, Q(1, 2)) ELSE s1
        s3 == QAdd(s2, Lookup(planHierarchy, plan.planName, I(0)))
        s4 == IF HasFeature(option, "Storyboard Export") THEN QAdd(s3, I(1)) ELSE s3
        s5 == IF HasFeature(option, "Keyframe Editor") THEN QAdd(s4, Q(1, 2)) ELSE s4
        s6 == IF HasFeature(option, "Audio-Video Sync") THEN QAdd(s5, I(1)) ELSE s5
        s7 == QAdd(s6, Lookup(platformReputation, platform.platformName, I(0)))
    IN  QMin(I(10), s7)

\* Array.isArray(value) ? (value[0] + value[1]) / 2 : value
getAverage(value) ==
    IF Len(value) = 2 THEN QDiv(QAdd(value[1], value[2]), I(2)) ELSE value[1]

\* EffectiveMaxParallel with the API usable on the tier 'Yes' alone
EffectiveMaxParallelFullTierOnly(plan, platform, expertise) ==
    IF /\ platform.apiAvailable = "Yes"
       /\ expertise \in {"expert", "intermediate"}
       /\ "maxParallelAPI" \in DOMAIN plan /\ plan.maxParallelAPI # I(0)
    THEN plan.maxParallelAPI
    ELSE plan.maxParallel

\* canUseAPI && plan.maxParallelAPI ? plan.maxParallelAPI : plan.maxParallel
EffectiveMaxParallel(plan, platform, expertise) ==
    LET canUseAPI == /\ platform.apiAvailable \in {"Yes", "Limited", "Enterprise"}
                     /\ expertise \in {"expert", "intermediate"}
    IN  IF canUseAPI /\ "maxParallelAPI" \in DOMAIN plan /\ plan.maxParallelAPI # I(0)
        THEN plan.maxParallelAPI
        ELSE plan.maxParallel

\* SingleAccountTimeDays without the setup days
SingleAccountTimeDaysNoSetup(durationMinutes, option, plan, platform, expertise) ==
    LET clipsNeeded == QCeil(QDiv(QMul(durationMinutes, I(60)), option.maxDurationSec))
        effectiveMaxParallel == EffectiveMaxParallel(plan, platform, expertise)
        totalWorkloadMinutes == QMul(clipsNeeded, plan.avgTimePerClipMin)
        totalWorkloadHours == QDiv(totalWorkloadMinutes, I(60))
        singleAccountTimeHours == QDiv(totalWorkloadHours, effectiveMaxParallel)
    IN  QDiv(singleAccountTimeHours, I(8))

\* singleAccountTimeDays of calculateTimeRequirement, for durationMinutes > 0
SingleAccountTimeDays(durationMinutes, option, plan, platform, expertise) ==
    LET clipsNeeded == QCeil(QDiv(QMul(durationMinutes, I(60)), option.maxDurationSec))
        effectiveMaxParallel == EffectiveMaxParallel(plan, platform, expertise)
        totalWorkloadMinutes == QMul(clipsNeeded, plan.avgTimePerClipMin)
        totalWorkloadHours == QDiv(totalWorkloadMinutes, I(60))
        singleAccountTimeHours == QDiv(totalWorkloadHours, effectiveMaxParallel)
    IN  QAdd(QDiv(singleAccountTimeHours, I(8)), platform.setupDays)

\* calculateTimeRequirement that reports the time of one account
calculateTimeRequirementSingleAccount(durationMinutes, option, plan, platform, deadline, expertise) ==
    IF QLe(durationMinutes, I(0)) THEN [timeDays |-> I(0), accountsNeeded |-> I(1)]
    ELSE LET singleAccountTimeDays ==
                 SingleAccountTimeDays(durationMinutes, option, plan, platform, expertise)
         IN  [timeDays |-> singleAccountTimeDays,
              accountsNeeded |->
                  IF QGt(singleAccountTimeDays, deadline)
                  THEN QCeil(QDiv(singleAccountTimeDays, deadline))
                  ELSE I(1)]

\* calculateTimeRequirement with the number of accounts rounded down
calculateTimeRequirementFloor(durationMinutes, option, plan, platform, deadline, expertise) ==
    IF QLe(durationMinutes, I(0)) THEN [timeDays |-> I(0), accountsNeeded |-> I(1)]
    ELSE LET singleAccountTimeDays ==
                 SingleAccountTimeDays(durationMinutes, option, plan, platform, expertise)
             accountsNeeded ==
                 IF QGt(singleAccountTimeDays, deadline)
                 THEN QFloor(QDiv(singleAccountTimeDays, deadline))
                 ELSE I(1)
         IN  [timeDays |-> QDiv(singleAccountTimeDays, accountsNeeded),
              accountsNeeded |-> accountsNeeded]

calculateTimeRequirement(durationMinutes, option, plan, platform, deadline, expertise) ==
    IF QLe(durationMinutes, I(0)) THEN [timeDays |-> I(0), accountsNeeded |-> I(1)]
    ELSE LET singleAccountTimeDays ==
                 SingleAccountTimeDays(durationMinutes, option, plan, platform, expertise)
             accountsNeeded ==
                 IF QGt(singleAccountTimeDays, deadline)
                 THEN QCeil(QDiv(singleAccountTimeDays, deadline))
                 ELSE I(1)
         IN  [timeDays |-> QDiv(singleAccountTimeDays, accountsNeeded),
              accountsNeeded |-> accountsNeeded]

\* calculateCostPerSecondUSD with the quota tested before the cost unit
calculateCostPerSecondUSDQuotaFirst(option, plan) ==
    LET avgCostPerUnit == getAverage(option.cost)
        durationSeconds == option.maxDurationSec
    IN  IF plan.quotaUnit = "unlimited" \/ plan.quota = I(0) THEN Infinity
        ELSE IF option.costUnit = "per_second" THEN avgCostPerUnit
        ELSE LET costPerUnitUSD == QDiv(plan.monthlyCost, plan.quota)
             IN  IF option.costUnit \in {"credits", "tokens", "clips"}
                 THEN QDiv(QMul(avgCostPerUnit, costPerUnitUSD), durationSeconds)
                 ELSE IF option.costUnit = "ratio"
                 THEN QMul(avgCostPerUnit, costPerUnitUSD)
                 ELSE Infinity

calculateCostPerSecondUSD(option, plan) ==
    LET avgCostPerUnit == getAverage(option.cost)
        durationSeconds == option.maxDurationSec
    IN  IF option.costUnit = "per_second" THEN avgCostPerUnit
        ELSE IF plan.quotaUnit = "unlimited" \/ plan.quota = I(0) THEN Infinity
        ELSE LET costPerUnitUSD == QDiv(plan.monthlyCost, plan.quota)
             IN  IF option.costUnit \in {"credits", "tokens", "clips"}
                 THEN QDiv(QMul(avgCostPerUnit, costPerUnitUSD), durationSeconds)
                 ELSE IF option.costUnit = "ratio"
                 THEN QMul(avgCostPerUnit, costPerUnitUSD)
                 ELSE Infinity

(***************************************************************************)
(* calculate: the body of the loop over the catalog, for one               *)
(* (platform, plan, option) triple.                                        *)
(***************************************************************************)
\* the value of a field that was never assigned
Undefined == <<>>

\* CostModeTotalCost with the subscriptions rounded down instead of up
CostModeTotalCostFloor(option, plan, duration) ==
    IF plan.quotaUnit = "unlimited"
    THEN IF option.costUnit = "per_second"
         THEN QMul(QMul(duration, I(60)), getAverage(option.cost))
         ELSE plan.monthlyCost
    ELSE IF QGt(plan.quota, I(0))
         THEN QMul(QFloor(QDiv(
                       IF option.costUnit = "ratio"
                       THEN QMul(QMul(duration, I(60)), getAverage(option.cost))
                       ELSE QMul(QCeil(QDiv(QMul(duration, I(60)), option.maxDurationSec)),
                                 getAverage(option.cost)),
                       plan.quota)),
                   plan.monthlyCost)
         ELSE Infinity

\* cost mode: result.totalCost
CostModeTotalCost(option, plan, duration) ==
    LET clipsNeeded == QCeil(QDiv(QMul(duration, I(60)), option.maxDurationSec))
    IN  IF plan.quotaUnit = "unlimited"
        THEN IF option.costUnit = "per_second"
             THEN QMul(QMul(duration, I(60)), getAverage(option.cost))
             ELSE plan.monthlyCost
        ELSE IF QGt(plan.quota, I(0))
             THEN LET totalUnitsNeeded ==
                          IF option.costUnit = "ratio"
                          THEN QMul(QMul(duration, I(60)), getAverage(option.cost))
                          ELSE QMul(clipsNeeded, getAverage(option.cost))
                      plansNeeded == QCeil(QDiv(totalUnitsNeeded, plan.quota))
                  IN  QMul(plansNeeded, plan.monthlyCost)
             ELSE Infinity

\* the text of a reason, as its words
RequiresAccounts(n) == <<"Requires", ToString(n[1]), "accounts">>
OverBudget == <<"Over", "budget">>
ChallengingDeadline(n) ==
    <<"Challenging", "deadline:", "needs", ToString(n[1]), "accounts">>

\* CostModeResult with the budget compared to the total cost of every account
CostModeResultEveryAccount(platform, plan, option, in) ==
    LET totalCost == CostModeTotalCost(option, plan, in.duration)
        timeReq == calculateTimeRequirement(in.duration, option, plan, platform,
                                            in.deadline, in.expertise)
        r1 == IF QGt(timeReq.timeDays, in.deadline)
              THEN <<RequiresAccounts(timeReq.accountsNeeded)>> ELSE <<>>
        r2 == IF QGt(QMul(totalCost, timeReq.accountsNeeded), in.budget)
              THEN Append(r1, OverBudget) ELSE r1
    IN  [achievableDuration |-> in.duration, totalCost |-> totalCost,
         rawGenerationTimeDays |-> timeReq.timeDays,
         accountsNeeded |-> timeReq.accountsNeeded,
         plansAffordable |-> Undefined, reasons |-> r2]

\* CostModeResult with the budget compared to the price of one subscription
\* instead of the total cost
CostModeResultPlanPrice(platform, plan, option, in) ==
    LET totalCost == CostModeTotalCost(option, plan, in.duration)
        timeReq == calculateTimeRequirement(in.duration, option, plan, platform,
                                            in.deadline, in.expertise)
        r1 == IF QGt(timeReq.timeDays, in.deadline)
              THEN <<RequiresAccounts(timeReq.accountsNeeded)>> ELSE <<>>
        r2 == IF QGt(plan.monthlyCost, in.budget) THEN Append(r1, OverBudget) ELSE r1
    IN  [achievableDuration |-> in.duration, totalCost |-> totalCost,
         rawGenerationTimeDays |-> timeReq.timeDays,
         accountsNeeded |-> timeReq.accountsNeeded,
         plansAffordable |-> Undefined, reasons |-> r2]

\* cost mode: the fields of result and the reasons
CostModeResult(platform, plan, option, in) ==
    LET totalCost == CostModeTotalCost(option, plan, in.duration)
        timeReq == calculateTimeRequirement(in.duration, option, plan, platform,
                                            in.deadline, in.expertise)
        r1 == IF QGt(timeReq.timeDays, in.deadline)
              THEN <<RequiresAccounts(timeReq.accountsNeeded)>> ELSE <<>>
        r2 == IF QGt(totalCost, in.budget) THEN Append(r1, OverBudget) ELSE r1
    IN  [achievableDuration |-> in.duration, totalCost |-> totalCost,
         rawGenerationTimeDays |-> timeReq.timeDays,
         accountsNeeded |-> timeReq.accountsNeeded,
         plansAffordable |-> Undefined, reasons |-> r2]

\* DurationModeBudget with the subscriptions rounded up instead of down
DurationModeBudgetCeil(option, plan, budget) ==
    LET none == [totalVideoSeconds |-> I(0), totalCost |-> budget,
                 plansAffordable |-> Undefined]
    IN  IF plan.quotaUnit = "unlimited"
        THEN IF option.costUnit = "per_second"
             THEN IF QGt(budget, I(0)) /\ QGt(getAverage(option.cost), I(0))
                  THEN [none EXCEPT !.totalVideoSeconds =
                                        QDiv(budget, getAverage(option.cost))]
                  ELSE none
             ELSE IF QGe(budget, plan.monthlyCost)
                  THEN [none EXCEPT !.totalVideoSeconds = Infinity,
                                    !.totalCost = plan.monthlyCost]
                  ELSE none
        ELSE IF QGt(plan.monthlyCost, I(0))
                /\ QGt(QCeil(QDiv(budget, plan.monthlyCost)), I(0))
             THEN [totalVideoSeconds |->
                       IF QGt(getAverage(option.cost), I(0))
                       THEN IF option.costUnit = "ratio"
                            THEN QDiv(QMul(QCeil(QDiv(budget, plan.monthlyCost)),
                                           plan.quota),
                                      getAverage(option.cost))
                            ELSE QMul(QDiv(QMul(QCeil(QDiv(budget, plan.monthlyCost)),
                                                plan.quota),
                                           getAverage(option.cost)),
                                      option.maxDurationSec)
                       ELSE I(0),
                   totalCost |-> QMul(QCeil(QDiv(budget, plan.monthlyCost)),
                                      plan.monthlyCost),
                   plansAffordable |-> QCeil(QDiv(budget, plan.monthlyCost))]
             ELSE none

\* DurationModeBudget with the flat-fee branch leaving totalCost at the budget
DurationModeBudgetKeepsBudget(option, plan, budget) ==
    LET none == [totalVideoSeconds |-> I(0), totalCost |-> budget,
                 plansAffordable |-> Undefined]
    IN  IF plan.quotaUnit = "unlimited"
        THEN IF option.costUnit = "per_second"
             THEN IF QGt(budget, I(0)) /\ QGt(getAverage(option.cost), I(0))
                  THEN [none EXCEPT !.totalVideoSeconds =
                                        QDiv(budget, getAverage(option.cost))]
                  ELSE none
             ELSE IF QGe(budget, plan.monthlyCost)
                  THEN [none EXCEPT !.totalVideoSeconds = Infinity]
                  ELSE none
        ELSE IF QGt(plan.monthlyCost, I(0))
                /\ QGt(QFloor(QDiv(budget, plan.monthlyCost)), I(0))
             THEN [totalVideoSeconds |->
                       IF QGt(getAverage(option.cost), I(0))
                       THEN IF option.costUnit = "ratio"
                            THEN QDiv(QMul(QFloor(QDiv(budget, plan.monthlyCost)),
                                           plan.quota),
                                      getAverage(option.cost))
                            ELSE QMul(QDiv(QMul(QFloor(QDiv(budget, plan.monthlyCost)),
                                                plan.quota),
                                           getAverage(option.cost)),
                                      option.maxDurationSec)
                       ELSE I(0),
                   totalCost |-> QMul(QFloor(QDiv(budget, plan.monthlyCost)),
                                      plan.monthlyCost),
                   plansAffordable |-> QFloor(QDiv(budget, plan.monthlyCost))]
             ELSE none

\* duration mode: totalVideoSeconds, result.totalCost and result.plansAffordable
DurationModeBudget(option, plan, budget) ==
    LET none == [totalVideoSeconds |-> I(0), totalCost |-> budget,
                 plansAffordable |-> Undefined]
    IN  IF plan.quotaUnit = "unlimited"
        THEN IF option.costUnit = "per_second"
             THEN IF QGt(budget, I(0)) /\ QGt(getAverage(option.cost), I(0))
                  THEN [none EXCEPT !.totalVideoSeconds =
                                        QDiv(budget, getAverage(option.cost))]
                  ELSE none
             ELSE IF QGe(budget, plan.monthlyCost)
                  THEN [none EXCEPT !.totalVideoSeconds = Infinity,
                                    !.totalCost = plan.monthlyCost]
                  ELSE none
        ELSE IF QGt(plan.monthlyCost, I(0))
             THEN LET plansAffordable == QFloor(QDiv(budget, plan.monthlyCost))
                      totalQuota == QMul(plansAffordable, plan.quota)
                      costPerClip == getAverage(option.cost)
                  IN  IF QGt(plansAffordable, I(0))
                      THEN [totalVideoSeconds |->
                                IF QGt(costPerClip, I(0))
                                THEN IF option.costUnit = "ratio"
                                     THEN QDiv(totalQuota, costPerClip)
                                     ELSE QMul(QDiv(totalQuota, costPerClip),
                                               option.maxDurationSec)
                                ELSE I(0),
                            totalCost |-> QMul(plansAffordable, plan.monthlyCost),
                            plansAffordable |-> plansAffordable]
                      ELSE none
             ELSE none

\* MaxDurationFromTime with days of 24 working hours
MaxDurationFromTimeFullDay(platform, plan, option, in) ==
    LET effectiveMaxParallel == EffectiveMaxParallel(plan, platform, in.expertise)
        maxClipsInDeadline ==
            QMul(QDiv(QMul(QMul(in.deadline, I(24)), I(60)), plan.avgTimePerClipMin),
                 effectiveMaxParallel)
    IN  QDiv(QMul(maxClipsInDeadline, option.maxDurationSec), I(60))

\* duration mode: maxDurationFromTime, the ceiling the deadline puts on the minutes
MaxDurationFromTime(platform, plan, option, in) ==
    LET effectiveMaxParallel == EffectiveMaxParallel(plan, platform, in.expertise)
        maxClipsInDeadline ==
            QMul(QDiv(QMul(QMul(in.deadline, I(8)), I(60)), plan.avgTimePerClipMin),
                 effectiveMaxParallel)
    IN  QDiv(QMul(maxClipsInDeadline, option.maxDurationSec), I(60))

\* DurationModeResult that gives a reason to a triple that achieves nothing
DurationModeResultZeroIsReason(platform, plan, option, in) ==
    LET b == DurationModeBudget(option, plan, in.budget)
        achievableDuration ==
            QMin(QDiv(b.totalVideoSeconds, I(60)),
                 MaxDurationFromTime(platform, plan, option, in))
        timeReq == calculateTimeRequirement(achievableDuration, option, plan, platform,
                                            in.deadline, in.expertise)
    IN  [achievableDuration |-> achievableDuration, totalCost |-> b.totalCost,
         rawGenerationTimeDays |-> timeReq.timeDays,
         accountsNeeded |-> timeReq.accountsNeeded,
         plansAffordable |-> b.plansAffordable,
         reasons |-> IF QLe(achievableDuration, I(0)) THEN <<OverBudget>> ELSE <<>>]

\* duration mode: the fields of result and the reasons
DurationModeResult(platform, plan, option, in) ==
    LET b == DurationModeBudget(option, plan, in.budget)
        achievableDuration ==
            QMin(QDiv(b.totalVideoSeconds, I(60)),
                 MaxDurationFromTime(platform, plan, option, in))
        timeReq == calculateTimeRequirement(achievableDuration, option, plan, platform,
                                            in.deadline, in.expertise)
    IN  [achievableDuration |-> achievableDuration, totalCost |-> b.totalCost,
         rawGenerationTimeDays |-> timeReq.timeDays,
         accountsNeeded |-> timeReq.accountsNeeded,
         plansAffordable |-> b.plansAffordable,
         reasons |-> IF QGt(timeReq.timeDays, in.deadline) /\ QGt(achievableDuration, I(0))
                     THEN <<ChallengingDeadline(timeReq.accountsNeeded)>> ELSE <<>>]

\* reason.includes('accounts')
IncludesAccounts(reason) == \E i \in 1..Len(reason) : reason[i] = "accounts"

\* Feasible without the test of what the single reason says
FeasibleAtMostOneReason(reasons) == Len(reasons) <= 1

\* result.feasible
Feasible(reasons) ==
    \/ Len(reasons) = 0
    \/ Len(reasons) = 1 /\ IncludesAccounts(reasons[1])

expertiseMatch ==
    [e \in {"beginner", "intermediate", "expert"} |->
        CASE e = "beginner" ->
                 ("beginner" :> I(20)) @@ ("intermediate" :> I(5)) @@ ("expert" :> I(-10))
          [] e = "intermediate" ->
                 ("beginner" :> I(10)) @@ ("intermediate" :> I(20)) @@ ("expert" :> I(10))
          [] e = "expert" ->
                 ("beginner" :> I(-5)) @@ ("intermediate" :> I(10)) @@ ("expert" :> I(20))]

\* ScoreMaxParallel with the API cap on every tier that has an API
ScoreMaxParallelAnyTier(plan, platform, expertise) ==
    IF /\ platform.apiAvailable \in {"Yes", "Limited", "Enterprise"}
       /\ expertise # "beginner"
       /\ "maxParallelAPI" \in DOMAIN plan /\ plan.maxParallelAPI # I(0)
    THEN plan.maxParallelAPI
    ELSE plan.maxParallel

\* the parallelism the speed term of the score uses
ScoreMaxParallel(plan, platform, expertise) ==
    IF /\ platform.apiAvailable = "Yes"
       /\ expertise # "beginner"
       /\ "maxParallelAPI" \in DOMAIN plan /\ plan.maxParallelAPI # I(0)
    THEN plan.maxParallelAPI
    ELSE plan.maxParallel

\* the composite score of a triple
Score(platform, plan, option, in, result, feasible, qualityScore, costPerSecondUSD) ==
    LET s1 == IF feasible THEN I(50) ELSE I(0)
        s2 == IF QGt(result.accountsNeeded, I(1)) /\ feasible
              THEN QSub(s1, QMul(result.accountsNeeded, I(2))) ELSE s1
        s3 == QAdd(s2, Lookup(expertiseMatch[in.expertise], platform.techLevel, I(0)))
        s4 == IF in.audioNeeds = "advanced"
              THEN QAdd(s3, IF option.audio THEN I(15) ELSE I(-25))
              ELSE IF in.audioNeeds = "basic"
              THEN QAdd(s3, IF option.audio THEN I(5) ELSE I(-5))
              ELSE s3
        effectiveMaxParallel == ScoreMaxParallel(plan, platform, in.expertise)
        s5 == QAdd(s4, QMul(QMul(effectiveMaxParallel, Q(1, 2)),
                            QDiv(in.speedCost, I(100))))
        qualityWeight == QDiv(in.costQuality, I(100))
        costScore ==
            IF QGt(costPerSecondUSD, I(0)) /\ IsFinite(costPerSecondUSD)
            THEN QMul(QMax(I(0), QSub(I(1), QDiv(costPerSecondUSD, I(5)))), I(15))
            ELSE I(15)
        s6 == QAdd(s5, QAdd(QMul(costScore, QSub(I(1), qualityWeight)),
                            QMul(QMul(QDiv(qualityScore, I(10)), I(15)), qualityWeight)))
    IN  IF in.calcMode = "duration" /\ QGt(result.achievableDuration, I(0))
        THEN QAdd(s6, QMin(I(20), QDiv(result.achievableDuration, I(2))))
        ELSE s6

\* the ScoredPlatform pushed for a triple, from the values computed for it
Scored(platform, plan, option, in, result, feasible, qualityScore, costPerSecondUSD) ==
    [platformName |-> platform.platformName,
     planName |-> plan.planName,
     option |-> option,
     score |-> Score(platform, plan, option, in, result, feasible,
                     qualityScore, costPerSecondUSD),
     totalCost |-> result.totalCost,
     rawGenerationTimeDays |-> result.rawGenerationTimeDays,
     costPerSecondUSD |-> costPerSecondUSD,
     qualityScore |-> qualityScore,
     feasible |-> feasible,
     reasons |-> result.reasons,
     accountsNeeded |-> result.accountsNeeded,
     apiAvailable |-> platform.apiAvailable,
     achievableDuration |-> result.achievableDuration,
     plansAffordable |-> result.plansAffordable,
     monthlyCost |-> plan.monthlyCost]

\* the fields of result and the reasons, in the mode of the inputs
ModeResult(platform, plan, option, in) ==
    IF in.calcMode = "cost"
    THEN CostModeResult(platform, plan, option, in)
    ELSE DurationModeResult(platform, plan, option, in)

\* a triple with its result: feasible is derived from the reasons
ScoredWith(platform, plan, option, in, result) ==
    Scored(platform, plan, option, in, result, Feasible(result.reasons),
           getQualityScore(option, plan, platform),
           calculateCostPerSecondUSD(option, plan))

\* one pass of the loop body
ScoreOption(platform, plan, option, in) ==
    ScoredWith(platform, plan, option, in, ModeResult(platform, plan, option, in))

(***************************************************************************)
(* calculate: the loop over the catalog, the sort and the primary pick.    *)
(***************************************************************************)
RECURSIVE ConcatAll(_)
ConcatAll(ss) == IF ss = <<>> THEN <<>> ELSE Head(ss) \o ConcatAll(Tail(ss))

\* the (platform, plan, option) triples in the order the three loops visit them
Triples(data) ==
    ConcatAll([i \in 1..Len(data) |->
        ConcatAll([j \in 1..Len(data[i].plans) |->
            [k \in 1..Len(data[i].plans[j].options) |->
                <<data[i], data[i].plans[j], data[i].plans[j].options[k]>>]])])

CatalogTriples == Triples(DETAILED_PLATFORM_DATA)

\* the data table the loops of calculate read
VARIABLE catalog

\* scoredOptions with the infeasible triples skipped
scoredOptionsFeasibleOnly(in) ==
    LET triples == Triples(catalog)
    IN  SelectSeq([i \in 1..Len(triples) |->
                      ScoreOption(triples[i][1], triples[i][2], triples[i][3], in)],
                  LAMBDA p : p.feasible)

\* scoredOptions when the loops end
scoredOptions(in) ==
    LET triples == Triples(catalog)
    IN  [i \in 1..Len(triples) |->
            ScoreOption(triples[i][1], triples[i][2], triples[i][3], in)]

\* CompareScored without the feasibility test: ranks by score alone
CompareScoredByScore(a, b) == QCmp(b.score, a.score)

\* the comparator handed to sort: negative when a goes first
CompareScored(a, b) ==
    IF a.feasible # b.feasible THEN (IF a.feasible THEN -1 ELSE 1)
    ELSE QCmp(b.score, a.score)

\* InsertScored as an unstable sort would do it: x goes before its equals
RECURSIVE InsertScoredUnstable(_, _)
InsertScoredUnstable(s, x) ==
    IF s = <<>> THEN <<x>>
    ELSE IF CompareScored(s[Len(s)], x) >= 0
         THEN Append(InsertScoredUnstable(SubSeq(s, 1, Len(s) - 1), x), s[Len(s)])
         ELSE Append(s, x)

\* Array.prototype.sort is stable: x goes behind every element that does not
\* compare greater than it
RECURSIVE InsertScored(_, _)
InsertScored(s, x) ==
    IF s = <<>> THEN <<x>>
    ELSE IF CompareScored(s[Len(s)], x) > 0
         THEN Append(InsertScored(SubSeq(s, 1, Len(s) - 1), x), s[Len(s)])
         ELSE Append(s, x)

\* SortScored that leaves the list in catalog order
SortScoredCatalogOrder(s) == s

RECURSIVE SortScored(_)
SortScored(s) ==
    IF s = <<>> THEN <<>>
    ELSE InsertScored(SortScored(SubSeq(s, 1, Len(s) - 1)), s[Len(s)])

\* the value of a state that holds no ScoredPlatform
Null == [null |-> TRUE]

\* scoredOptions.find(p => p.feasible) || scoredOptions[0] || null
RECURSIVE FindFeasible(_)
FindFeasible(s) ==
    IF s = <<>> THEN Null
    ELSE IF Head(s).feasible THEN Head(s) ELSE FindFeasible(Tail(s))

\* PrimaryPick without the fallback to the first entry
PrimaryPickFeasibleOnly(sorted) == FindFeasible(sorted)

PrimaryPick(sorted) ==
    IF FindFeasible(sorted) # Null THEN FindFeasible(sorted)
    ELSE IF sorted # <<>> THEN sorted[1]
    ELSE Null

(***************************************************************************)
(* The inputs the model draws.  Each field takes the first values of its   *)
(* list, the initial value of the form first.                              *)
(***************************************************************************)
NumDeadlines == 2
NumDurations == 2
NumBudgets == 3
NumSliderValues == 2
NumTraditional == 3

DeadlineList == <<7, 1, 2>>
DurationList == <<10, 0, 60>>
BudgetList == <<1000, 20, 0, 48, 200>>
SliderList == <<50, 0, 100, 25>>
TraditionalCostList == <<10000, 50, 0, 100>>
TraditionalTimeList == <<14, 1, 0, 2>>

\* the first n values of a list, as numbers
FirstValues(list, n) == {I(list[k]) : k \in 1..n}

CalcModes == {"cost", "duration"}
AudioNeeds == {"none", "basic", "advanced"}
ExpertiseLevels == {"beginner", "intermediate", "expert"}

\* the value a form field can be changed to
FieldValues(name) ==
    CASE name = "deadline" -> FirstValues(DeadlineList, NumDeadlines)
      [] name = "duration" -> FirstValues(DurationList, NumDurations)
      [] name = "budget" -> FirstValues(BudgetList, NumBudgets)
      [] name = "costQuality" -> FirstValues(SliderList, NumSliderValues)
      [] name = "speedCost" -> FirstValues(SliderList, NumSliderValues)
      [] name = "audioNeeds" -> AudioNeeds
      [] name = "expertise" -> ExpertiseLevels
      [] name = "traditionalCost" -> FirstValues(TraditionalCostList, NumTraditional)
      [] name = "traditionalTime" -> FirstValues(TraditionalTimeList, NumTraditional)

(***************************************************************************)
(* The state of CalculatorSection and useRecommendation.                   *)
(***************************************************************************)
VARIABLES
    inputs,                 \* the state of CalculatorSection
    primaryRecommendation,  \* the state of useRecommendation
    sortedPlatforms,
    effectPending           \* the effect that calls calculate is scheduled

vars == <<inputs, primaryRecommendation, sortedPlatforms, effectPending, catalog>>

InitialInputs ==
    [calcMode |-> "cost", deadline |-> I(7), duration |-> I(10), budget |-> I(1000),
     costQuality |-> I(50), speedCost |-> I(50), audioNeeds |-> "none",
     expertise |-> "beginner", enableComparison |-> FALSE,
     traditionalCost |-> I(10000), traditionalTime |-> I(14)]

Init ==
    /\ catalog = DETAILED_PLATFORM_DATA
    /\ inputs = InitialInputs
    /\ primaryRecommendation = Null
    /\ sortedPlatforms = <<>>
    /\ effectPending = TRUE

\* the fields rendered as enabled number, range and select controls
EnabledFields(in) ==
    {"deadline", "budget", "costQuality", "speedCost", "audioNeeds", "expertise"}
    \cup (IF in.calcMode = "cost" THEN {"duration"} ELSE {})
    \cup (IF in.calcMode = "cost" /\ in.enableComparison
          THEN {"traditionalCost", "traditionalTime"} ELSE {})

\* SetInputs that does not schedule the effect
SetInputsNoEffect(new) ==
    /\ ~effectPending
    /\ inputs' = new
    /\ UNCHANGED <<primaryRecommendation, sortedPlatforms, effectPending, catalog>>

\* setInputs gives the component a new inputs object, so calculate is rebuilt
\* and its effect is scheduled; React runs the effect before the next event
SetInputs(new) ==
    /\ ~effectPending
    /\ inputs' = new
    /\ effectPending' = TRUE
    /\ UNCHANGED <<primaryRecommendation, sortedPlatforms, catalog>>

\* HandleChangeCalcMode that leaves enableComparison as it is
HandleChangeCalcModeKeepsToggle ==
    \E value \in CalcModes : SetInputs([inputs EXCEPT !.calcMode = value])

\* handleChange for one of the two Calculation Mode buttons
HandleChangeCalcMode ==
    \E value \in CalcModes :
        SetInputs([inputs EXCEPT !.calcMode = value,
                                 !.enableComparison =
                                     IF value = "cost" THEN @ ELSE FALSE])

\* handleChange for the Enable Comparison checkbox, disabled outside cost mode
HandleChangeCheckbox ==
    /\ inputs.calcMode = "cost"
    /\ SetInputs([inputs EXCEPT !.enableComparison = ~@])

\* the controls whose changes the model follows; the target duration, the
\* sliders and the two selects keep their initial values here and vary in
\* EngineSpec
EditedFields == {"deadline", "budget", "traditionalCost", "traditionalTime"}

\* handleChange for a number, range or select control
HandleChangeValue ==
    \E name \in EnabledFields(inputs) \cap EditedFields :
        \E value \in FieldValues(name) \ {inputs[name]} :
            SetInputs([inputs EXCEPT ![name] = value])

\* the effect: calculate()
Calculate ==
    /\ effectPending
    /\ LET sorted == SortScored(scoredOptions(inputs))
       IN  /\ sortedPlatforms' = sorted
           /\ primaryRecommendation' = PrimaryPick(sorted)
    /\ effectPending' = FALSE
    /\ UNCHANGED <<inputs, catalog>>

Next ==
    \/ HandleChangeCalcMode
    \/ HandleChangeCheckbox
    \/ HandleChangeValue
    \/ Calculate

Spec == Init /\ [][Next]_vars

\* the scheduled effect runs: in Next this is the step of Calculate, the only
\* one that clears effectPending
EffectRuns == effectPending /\ effectPending' = FALSE

\* React runs a scheduled effect after the render that scheduled it: the
\* effect is not postponed for ever
FairSpec == Spec /\ WF_effectPending(EffectRuns)

(***************************************************************************)
(* ROIAnalysisSummary: the two cards of the comparison with the            *)
(* traditional workflow, rendered in cost mode with the comparison on.     *)
(***************************************************************************)
\* |x|
QAbs(x) == IF QLt(x, I(0)) THEN QNeg(x) ELSE x

\* a card: its title and the value it shows as a percentage
SavingsCard(title, value) == [title |-> title, value |-> value]

\* ROIAnalysisSummary that shows an increase over a zero baseline as 0
ROIAnalysisSummaryZeroSentinel(platform, in) ==
    IF platform = Null \/ ~platform.feasible THEN Null
    ELSE LET costDifference == QSub(in.traditionalCost, platform.totalCost)
             timeDifference == QSub(in.traditionalTime, platform.rawGenerationTimeDays)
         IN  [costCard |->
                 IF QGe(costDifference, I(0))
                 THEN SavingsCard("Cost Savings",
                          IF QGt(in.traditionalCost, I(0))
                          THEN QMul(QDiv(costDifference, in.traditionalCost), I(100))
                          ELSE I(0))
                 ELSE SavingsCard("Cost Increase",
                          IF QGt(in.traditionalCost, I(0))
                          THEN QMul(QDiv(QAbs(costDifference), in.traditionalCost), I(100))
                          ELSE I(0)),
              timeCard |->
                 IF QGe(timeDifference, I(0))
                 THEN SavingsCard("Time Savings",
                          IF QGt(in.traditionalTime, I(0))
                          THEN QMul(QDiv(timeDifference, in.traditionalTime), I(100))
                          ELSE I(0))
                 ELSE SavingsCard("Time Increase",
                          IF QGt(in.traditionalTime, I(0))
                          THEN QMul(QDiv(QAbs(timeDifference), in.traditionalTime), I(100))
                          ELSE I(0))]

ROIAnalysisSummary(platform, in) ==
    IF platform = Null \/ ~platform.feasible THEN Null
    ELSE LET costDifference == QSub(in.traditionalCost, platform.totalCost)
             timeDifference == QSub(in.traditionalTime, platform.rawGenerationTimeDays)
         IN  [costCard |->
                 IF QGe(costDifference, I(0))
                 THEN SavingsCard("Cost Savings",
                          IF QGt(in.traditionalCost, I(0))
                          THEN QMul(QDiv(costDifference, in.traditionalCost), I(100))
                          ELSE I(0))
                 ELSE SavingsCard("Cost Increase",
                          IF QGt(in.traditionalCost, I(0))
                          THEN QMul(QDiv(QAbs(costDifference), in.traditionalCost), I(100))
                          ELSE Infinity),
              timeCard |->
                 IF QGe(timeDifference, I(0))
                 THEN SavingsCard("Time Savings",
                          IF QGt(in.traditionalTime, I(0))
                          THEN QMul(QDiv(timeDifference, in.traditionalTime), I(100))
                          ELSE I(0))
                 ELSE SavingsCard("Time Increase",
                          IF QGt(in.traditionalTime, I(0))
                          THEN QMul(QDiv(QAbs(timeDifference), in.traditionalTime), I(100))
                          ELSE Infinity)]

\* the summary CalculatorSection renders, or Null when it renders none
RenderedROI ==
    IF inputs.calcMode = "cost" /\ inputs.enableComparison
    THEN ROIAnalysisSummary(primaryRecommendation, inputs)
    ELSE Null

(***************************************************************************)
(* The engine alone: calculate applied to any inputs the form can hold.    *)
(* calculate reads neither the comparison fields nor the state of an       *)
(* earlier run, so these stay at their initial values.                     *)
(***************************************************************************)
EngineInputs ==
    {[InitialInputs EXCEPT !.calcMode = m, !.deadline = dl, !.duration = du,
                           !.budget = b, !.costQuality = cq, !.speedCost = sc,
                           !.audioNeeds = au, !.expertise = ex] :
        m \in CalcModes, dl \in FieldValues("deadline"), du \in FieldValues("duration"),
        b \in FieldValues("budget"), cq \in FieldValues("costQuality"),
        sc \in FieldValues("speedCost"), au \in AudioNeeds, ex \in ExpertiseLevels}

EngineInit ==
    /\ catalog = DETAILED_PLATFORM_DATA
    /\ inputs \in EngineInputs
    /\ primaryRecommendation = Null
    /\ sortedPlatforms = <<>>
    /\ effectPending = TRUE

EngineNext == Calculate

EngineSpec == EngineInit /\ [][EngineNext]_vars

(***************************************************************************)
(* calculate over other data tables: one platform of the catalog with one  *)
(* of its plans next to the same plan sold with an empty quota, or one     *)
(* platform with one of its plans given an API cap of twice its GUI cap.   *)
(* The sliders and the audio needs stay at their initial values.           *)
(***************************************************************************)
\* the (platform, plan) positions of the catalog
PlanPositions ==
    {t \in (1..Len(DETAILED_PLATFORM_DATA)) \X (1..8) :
        t[2] <= Len(DETAILED_PLATFORM_DATA[t[1]].plans)}

\* the plan with quota 0 and a quota unit other than 'unlimited'
ZeroQuota(plan) ==
    [plan EXCEPT !.quota = I(0),
                 !.quotaUnit = IF @ = "unlimited" THEN "credits" ELSE @]

\* a platform reduced to one plan and its zero-quota copy, in either order
TwinCatalog(platform, plan, zeroFirst) ==
    <<[platform EXCEPT !.plans = IF zeroFirst THEN <<ZeroQuota(plan), plan>>
                                              ELSE <<plan, ZeroQuota(plan)>>]>>

TwinCatalogs ==
    {TwinCatalog(DETAILED_PLATFORM_DATA[t[1]], DETAILED_PLATFORM_DATA[t[1]].plans[t[2]], z) :
        t \in PlanPositions, z \in BOOLEAN}

\* the plan with maxParallelAPI set to twice maxParallel
DoubleApiCap(plan) ==
    [f \in DOMAIN plan \cup {"maxParallelAPI"} |->
        IF f = "maxParallelAPI" THEN QMul(plan.maxParallel, I(2)) ELSE plan[f]]

\* a platform reduced to one plan with that API cap
ApiCapCatalog(platform, plan) ==
    <<[platform EXCEPT !.plans = <<DoubleApiCap(plan)>>]>>

ApiCapCatalogs ==
    {ApiCapCatalog(DETAILED_PLATFORM_DATA[t[1]], DETAILED_PLATFORM_DATA[t[1]].plans[t[2]]) :
        t \in PlanPositions}

CatalogInputs ==
    {[InitialInputs EXCEPT !.calcMode = m, !.deadline = dl, !.duration = du,
                           !.budget = b, !.expertise = ex] :
        m \in CalcModes, dl \in FieldValues("deadline"), du \in FieldValues("duration"),
        b \in FieldValues("budget"), ex \in ExpertiseLevels}

CatalogInit ==
    /\ catalog \in TwinCatalogs \cup ApiCapCatalogs
    /\ inputs \in CatalogInputs
    /\ primaryRecommendation = Null
    /\ sortedPlatforms = <<>>
    /\ effectPending = TRUE

CatalogNext == Calculate

CatalogSpec == CatalogInit /\ [][CatalogNext]_vars

(***************************************************************************)
(* Properties of the ranked list and the primary pick.                     *)
(***************************************************************************)
\* calculate has run on the current inputs
Calculated == ~effectPending

\* the indices of the ranked list
Ranked == 1..Len(sortedPlatforms)

\* the position of an entry's triple in the catalog iteration order
CatalogIndex(p) ==
    CHOOSE k \in 1..Len(CatalogTriples) :
        /\ CatalogTriples[k][1].platformName = p.platformName
        /\ CatalogTriples[k][2].planName = p.planName
        /\ CatalogTriples[k][3] = p.option

\* C1: in the ranked list no infeasible entry stands before a feasible one
C1_FeasibleFirst ==
    \A i, j \in Ranked :
        i < j /\ sortedPlatforms[j].feasible => sortedPlatforms[i].feasible

\* C1 witness: a ranked list that holds feasible and infeasible entries
C1_Witness ==
    /\ Calculated
    /\ \E i, j \in Ranked : sortedPlatforms[i].feasible /\ ~sortedPlatforms[j].feasible

\* C2: entries of equal feasibility are in non-increasing score order when
\* adjacent, and in catalog iteration order when their scores are equal
C2_ScoreOrderStable ==
    /\ \A i \in Ranked :
           i < Len(sortedPlatforms)
           /\ sortedPlatforms[i].feasible = sortedPlatforms[i + 1].feasible
           => QGe(sortedPlatforms[i].score, sortedPlatforms[i + 1].score)
    /\ \A i, j \in Ranked :
           /\ i < j
           /\ sortedPlatforms[i].feasible = sortedPlatforms[j].feasible
           /\ sortedPlatforms[i].score = sortedPlatforms[j].score
           => CatalogIndex(sortedPlatforms[i]) < CatalogIndex(sortedPlatforms[j])

\* C2 witness: two entries of equal feasibility and score, and two adjacent
\* entries of equal feasibility whose scores differ
C2_Witness ==
    /\ Calculated
    /\ \E i, j \in Ranked :
           /\ i < j
           /\ sortedPlatforms[i].feasible = sortedPlatforms[j].feasible
           /\ sortedPlatforms[i].score = sortedPlatforms[j].score
    /\ \E i \in Ranked :
           /\ i < Len(sortedPlatforms)
           /\ sortedPlatforms[i].feasible = sortedPlatforms[i + 1].feasible
           /\ QGt(sortedPlatforms[i].score, sortedPlatforms[i + 1].score)

\* the indices of the feasible entries of the ranked list
FeasibleRanked == {i \in Ranked : sortedPlatforms[i].feasible}

\* the least element of a non-empty set of integers
Least(S) == CHOOSE x \in S : \A y \in S : x <= y

\* C3: after a calculation the primary pick is never null; it is the first
\* feasible entry of the ranked list, or the first entry when none is feasible
C3_PrimaryPick ==
    Calculated =>
        /\ primaryRecommendation # Null
        /\ primaryRecommendation =
               IF FeasibleRanked # {} THEN sortedPlatforms[Least(FeasibleRanked)]
               ELSE sortedPlatforms[1]

\* C3 witness: a calculation that leaves no entry feasible and still picks one
C3_Witness ==
    /\ Calculated
    /\ FeasibleRanked = {}
    /\ primaryRecommendation = sortedPlatforms[1]

(***************************************************************************)
(* Properties of the records calculate emits.                              *)
(***************************************************************************)
\* the plan and the platform of an entry of the ranked list
PlanOf(p) == CatalogTriples[CatalogIndex(p)][2]
PlatformOf(p) == CatalogTriples[CatalogIndex(p)][1]

\* reasons holds the given reason
HasReason(p, reason) == \E r \in 1..Len(p.reasons) : p.reasons[r] = reason

\* C5: in cost mode a triple whose total cost exceeds the budget carries the
\* reason 'Over budget' and is infeasible
C5_OverBudgetInfeasible ==
    Calculated /\ inputs.calcMode = "cost" =>
        \A i \in Ranked :
            QGt(sortedPlatforms[i].totalCost, inputs.budget)
            => HasReason(sortedPlatforms[i], OverBudget) /\ ~sortedPlatforms[i].feasible

\* C5 witness: a cost-mode triple over budget, next to one whose total cost
\* equals the budget
C5_Witness ==
    /\ Calculated /\ inputs.calcMode = "cost"
    /\ \E i \in Ranked :
           /\ QGt(sortedPlatforms[i].totalCost, inputs.budget)
           /\ ~sortedPlatforms[i].feasible
    /\ \E i \in Ranked :
           /\ sortedPlatforms[i].totalCost = inputs.budget
           /\ sortedPlatforms[i].feasible

\* C6: a cost-mode triple within budget that needs more than one account is
\* feasible, and a triple is feasible exactly when it has no reason or the
\* accounts-needed reason alone
C6_AccountsTolerated ==
    Calculated =>
        \A i \in Ranked :
            /\ /\ inputs.calcMode = "cost"
               /\ QLe(sortedPlatforms[i].totalCost, inputs.budget)
               /\ QGt(sortedPlatforms[i].accountsNeeded, I(1))
               => sortedPlatforms[i].feasible
            /\ sortedPlatforms[i].feasible <=>
                  \/ sortedPlatforms[i].reasons = <<>>
                  \/ sortedPlatforms[i].reasons =
                         <<RequiresAccounts(sortedPlatforms[i].accountsNeeded)>>
                  \/ sortedPlatforms[i].reasons =
                         <<ChallengingDeadline(sortedPlatforms[i].accountsNeeded)>>

\* C6 witness: a feasible cost-mode triple within budget that needs several
\* accounts, next to an infeasible one
C6_Witness ==
    /\ Calculated /\ inputs.calcMode = "cost"
    /\ \E i \in Ranked :
           /\ QLe(sortedPlatforms[i].totalCost, inputs.budget)
           /\ QGt(sortedPlatforms[i].accountsNeeded, I(1))
           /\ sortedPlatforms[i].feasible
    /\ \E i \in Ranked : ~sortedPlatforms[i].feasible

\* C7: in cost mode, when some triple is feasible, the primary pick has the
\* least total cost among the feasible triples
C7_PrimaryCheapest ==
    Calculated /\ inputs.calcMode = "cost" /\ FeasibleRanked # {} =>
        \A i \in FeasibleRanked :
            QLe(primaryRecommendation.totalCost, sortedPlatforms[i].totalCost)

\* C8: in duration mode the primary pick has the greatest achievable duration
\* among the feasible triples
C8_PrimaryLongest ==
    Calculated /\ inputs.calcMode = "duration" /\ FeasibleRanked # {} =>
        \A i \in FeasibleRanked :
            QGe(primaryRecommendation.achievableDuration,
                sortedPlatforms[i].achievableDuration)

\* ceil(ceil(duration*60/maxDurationSec) * averageOf(cost) / quota) * monthlyCost
QuotaTotalCost(duration, option, plan) ==
    QMul(QCeil(QDiv(QMul(QCeil(QDiv(QMul(duration, I(60)), option.maxDurationSec)),
                         getAverage(option.cost)),
                    plan.quota)),
         plan.monthlyCost)

\* the plan and option of the worked example: $10 a month for 660 credits,
\* 10 credits for a clip of 5 seconds
IsWorkedExample(p) ==
    /\ PlanOf(p).monthlyCost = I(10) /\ PlanOf(p).quota = I(660)
    /\ getAverage(p.option.cost) = I(10) /\ p.option.maxDurationSec = I(5)

\* C9: in cost mode, on a plan with a positive quota and an option not priced
\* by ratio, the total cost is the closed formula; the worked example costs 20
C9_QuotaTotalCost ==
    Calculated /\ inputs.calcMode = "cost" =>
        \A i \in Ranked :
            /\ QGt(PlanOf(sortedPlatforms[i]).quota, I(0))
               /\ sortedPlatforms[i].option.costUnit # "ratio"
               => sortedPlatforms[i].totalCost =
                      QuotaTotalCost(inputs.duration, sortedPlatforms[i].option,
                                     PlanOf(sortedPlatforms[i]))
            /\ inputs.duration = I(10) /\ IsWorkedExample(sortedPlatforms[i])
               => sortedPlatforms[i].totalCost = I(20)

\* C9 witness: the worked example, computed for 10 minutes
C9_Witness ==
    /\ Calculated /\ inputs.calcMode = "cost" /\ inputs.duration = I(10)
    /\ \E i \in Ranked :
           /\ IsWorkedExample(sortedPlatforms[i])
           /\ sortedPlatforms[i].totalCost = I(20)

\* the parallelism of the time estimate: the API cap when the platform has an
\* API, the user is not a beginner and the plan defines the cap
ApiOrGuiCap(plan, platform, expertise) ==
    IF /\ platform.apiAvailable # "No"
       /\ expertise \in {"intermediate", "expert"}
       /\ "maxParallelAPI" \in DOMAIN plan
    THEN plan.maxParallelAPI
    ELSE plan.maxParallel

\* deadline*8*60 / avgTimePerClipMin * effectiveParallelism * maxDurationSec / 60
DeadlineCeiling(p) ==
    QDiv(QMul(QMul(QDiv(QMul(inputs.deadline, I(480)), PlanOf(p).avgTimePerClipMin),
                   ApiOrGuiCap(PlanOf(p), PlatformOf(p), inputs.expertise)),
              p.option.maxDurationSec),
         I(60))

\* an unlimited flat-fee plan the budget pays for
AffordableFlatFee(p) ==
    /\ PlanOf(p).quotaUnit = "unlimited"
    /\ p.option.costUnit # "per_second"
    /\ QGe(inputs.budget, PlanOf(p).monthlyCost)

\* C10: in duration mode an unlimited flat-fee plan within the budget costs
\* its monthly price and achieves the deadline-derived ceiling
C10_UnlimitedFlatFee ==
    Calculated /\ inputs.calcMode = "duration" =>
        \A i \in Ranked :
            AffordableFlatFee(sortedPlatforms[i])
            => /\ sortedPlatforms[i].totalCost = PlanOf(sortedPlatforms[i]).monthlyCost
               /\ sortedPlatforms[i].achievableDuration =
                      DeadlineCeiling(sortedPlatforms[i])

\* C10 witness: a flat-fee plan whose monthly price is exactly the budget, next
\* to a flat-fee plan the budget does not pay for
C10_Witness ==
    /\ Calculated /\ inputs.calcMode = "duration"
    /\ \E i, j \in Ranked :
           /\ AffordableFlatFee(sortedPlatforms[i])
           /\ sortedPlatforms[i].totalCost = inputs.budget
           /\ QGt(sortedPlatforms[i].achievableDuration, I(0))
           /\ PlanOf(sortedPlatforms[j]).quotaUnit = "unlimited"
           /\ sortedPlatforms[j].option.costUnit # "per_second"
           /\ QLt(inputs.budget, PlanOf(sortedPlatforms[j]).monthlyCost)
           /\ sortedPlatforms[j].achievableDuration = I(0)

\* a plan with a quota and an option not priced by ratio
QuotaBased(p) ==
    /\ PlanOf(p).quotaUnit # "unlimited"
    /\ p.option.costUnit # "ratio"

\* the minutes duration mode buys with the budget, before the deadline cap
MinutesForBudget(p) ==
    QDiv(DurationModeBudget(p.option, PlanOf(p), inputs.budget).totalVideoSeconds,
         I(60))

\* C12: on a quota-based plan and a non-ratio option, the minutes duration mode
\* computes from the budget, fed to the cost-mode total cost as the target
\* duration, cost no more than the budget
C12_RoundTripWithinBudget ==
    Calculated /\ inputs.calcMode = "duration" =>
        \A i \in Ranked :
            QuotaBased(sortedPlatforms[i])
            => QLe(CostModeTotalCost(sortedPlatforms[i].option,
                                     PlanOf(sortedPlatforms[i]),
                                     MinutesForBudget(sortedPlatforms[i])),
                   inputs.budget)

\* setup is spent once and is not shared between accounts: with n accounts
\* the work takes setupDays + work/n days, which no n brings within the
\* deadline when the setup leaves no time for the work
UnreachableWithAccounts(p) ==
    /\ QGt(inputs.duration, I(0))
    /\ QGe(PlatformOf(p).setupDays, inputs.deadline)

\* C14: a cost-mode triple whose deadline no number of accounts can meet is
\* infeasible and carries a reason
C14_UnreachableDeadlineInfeasible ==
    Calculated /\ inputs.calcMode = "cost" =>
        \A i \in Ranked :
            UnreachableWithAccounts(sortedPlatforms[i])
            => ~sortedPlatforms[i].feasible /\ sortedPlatforms[i].reasons # <<>>

\* C15: in cost mode with a target duration of 0 every triple of the catalog
\* has total cost 0, generation time 0 and one account
C15_ZeroDurationZeroResult ==
    Calculated /\ inputs.calcMode = "cost" /\ inputs.duration = I(0) =>
        /\ Len(sortedPlatforms) = Len(CatalogTriples)
        /\ \A i \in Ranked :
               /\ sortedPlatforms[i].totalCost = I(0)
               /\ sortedPlatforms[i].rawGenerationTimeDays = I(0)
               /\ sortedPlatforms[i].accountsNeeded = I(1)

\* the entries of the ranked list computed from the k-th triple of the catalog
EntriesOfTriple(k) == {i \in Ranked : CatalogIndex(sortedPlatforms[i]) = k}

\* C16: the ranked list holds exactly one entry for every (platform, plan,
\* option) triple of the catalog, none missing and none twice
C16_OneEntryPerTriple ==
    Calculated =>
        /\ Len(sortedPlatforms) = Len(CatalogTriples)
        /\ \A k \in 1..Len(CatalogTriples) :
               \E i \in Ranked :
                   /\ CatalogTriples[k][1].platformName = sortedPlatforms[i].platformName
                   /\ CatalogTriples[k][2].planName = sortedPlatforms[i].planName
                   /\ CatalogTriples[k][3] = sortedPlatforms[i].option
                   /\ EntriesOfTriple(k) = {i}

\* C16 witness: a ranked list with infeasible entries, an entry of infinite
\* cost per second and a feasible one
C16_Witness ==
    /\ Calculated
    /\ Len(sortedPlatforms) = Len(CatalogTriples)
    /\ \E i, j, k \in Ranked :
           /\ ~sortedPlatforms[i].feasible
           /\ sortedPlatforms[j].costPerSecondUSD = Infinity
           /\ sortedPlatforms[k].feasible

\* the bonus of a feature the option lists
FeatureBonus(p, feature, bonus) ==
    IF "features" \in DOMAIN p.option /\ feature \in p.option.features
    THEN bonus ELSE I(0)

\* resolution base + audio bonus + plan-tier bonus + feature bonuses +
\* platform reputation of an entry
QualitySum(p) ==
    QAdd(QAdd(QAdd(Lookup(resolutionScores, p.option.resolution, I(6)),
                   IF p.option.audio THEN Q(1, 2) ELSE I(0)),
              QAdd(Lookup(planHierarchy, p.planName, I(0)),
                   Lookup(platformReputation, p.platformName, I(0)))),
         QAdd(FeatureBonus(p, "Storyboard Export", I(1)),
              QAdd(FeatureBonus(p, "Keyframe Editor", Q(1, 2)),
                   FeatureBonus(p, "Audio-Video Sync", I(1)))))

\* C17: the quality score of every triple of the catalog lies between 0 and
\* 10 and is the sum of its five parts, capped at 10
C17_QualityRange ==
    Calculated =>
        \A i \in Ranked :
            /\ QGe(sortedPlatforms[i].qualityScore, I(0))
            /\ QLe(sortedPlatforms[i].qualityScore, I(10))
            /\ sortedPlatforms[i].qualityScore =
                  IF QLt(QualitySum(sortedPlatforms[i]), I(10))
                  THEN QualitySum(sortedPlatforms[i]) ELSE I(10)

\* C17 witness: a triple whose parts sum to more than 10 and is rated 10, and
\* a triple rated below 10
C17_Witness ==
    /\ Calculated
    /\ \E i, j \in Ranked :
           /\ QGt(QualitySum(sortedPlatforms[i]), I(10))
           /\ sortedPlatforms[i].qualityScore = I(10)
           /\ QLt(sortedPlatforms[j].qualityScore, I(10))

\* the minutes calculateTimeRequirement is asked about for an entry
TargetMinutes(p) ==
    IF inputs.calcMode = "cost" THEN inputs.duration ELSE p.achievableDuration

\* the days one account needs for the target minutes of an entry
SingleAccountDays(p) ==
    SingleAccountTimeDays(TargetMinutes(p), p.option, PlanOf(p), PlatformOf(p),
                          inputs.expertise)

\* C18: for target minutes above 0 the number of accounts is the least whole
\* number n >= 1 with singleAccountDays / n within the deadline, and the time
\* is singleAccountDays divided by that number
C18_MinimalAccounts ==
    Calculated =>
        \A i \in Ranked :
            QGt(TargetMinutes(sortedPlatforms[i]), I(0))
            => /\ sortedPlatforms[i].accountsNeeded[2] = 1
               /\ sortedPlatforms[i].accountsNeeded[1] >= 1
               /\ QLe(QDiv(SingleAccountDays(sortedPlatforms[i]),
                           sortedPlatforms[i].accountsNeeded),
                      inputs.deadline)
               /\ sortedPlatforms[i].accountsNeeded[1] > 1
                  => QGt(QDiv(SingleAccountDays(sortedPlatforms[i]),
                              QSub(sortedPlatforms[i].accountsNeeded, I(1))),
                         inputs.deadline)
               /\ sortedPlatforms[i].rawGenerationTimeDays =
                      QDiv(SingleAccountDays(sortedPlatforms[i]),
                           sortedPlatforms[i].accountsNeeded)

\* C18 witness: one triple that one account finishes in time, and one that
\* needs more than two accounts
C18_Witness ==
    /\ Calculated
    /\ \E i, j \in Ranked :
           /\ QGt(TargetMinutes(sortedPlatforms[i]), I(0))
           /\ sortedPlatforms[i].accountsNeeded = I(1)
           /\ QGt(sortedPlatforms[i].rawGenerationTimeDays, I(0))
           /\ QGt(sortedPlatforms[j].accountsNeeded, I(2))
           /\ QLt(sortedPlatforms[j].rawGenerationTimeDays, inputs.deadline)

\* C21: in duration mode the achievable duration of every record is the lesser
\* of the minutes the budget buys and the ceiling of the deadline: it is not
\* negative and exceeds neither
C21_AchievableDuration ==
    Calculated /\ inputs.calcMode = "duration" =>
        \A i \in Ranked :
            /\ QGe(sortedPlatforms[i].achievableDuration, I(0))
            /\ QLe(sortedPlatforms[i].achievableDuration,
                   DeadlineCeiling(sortedPlatforms[i]))
            /\ QLe(sortedPlatforms[i].achievableDuration,
                   MinutesForBudget(sortedPlatforms[i]))
            /\ \/ sortedPlatforms[i].achievableDuration =
                      DeadlineCeiling(sortedPlatforms[i])
               \/ sortedPlatforms[i].achievableDuration =
                      MinutesForBudget(sortedPlatforms[i])

\* C21 witness: one record held down by the deadline, one by the budget, and
\* one that achieves nothing
C21_Witness ==
    /\ Calculated /\ inputs.calcMode = "duration"
    /\ \E i, j, k \in Ranked :
           /\ QLt(sortedPlatforms[i].achievableDuration,
                  MinutesForBudget(sortedPlatforms[i]))
           /\ QGt(sortedPlatforms[j].achievableDuration, I(0))
           /\ QLt(sortedPlatforms[j].achievableDuration,
                  DeadlineCeiling(sortedPlatforms[j]))
           /\ sortedPlatforms[k].achievableDuration = I(0)

\* C25: the time of every record is within the deadline, so no record carries
\* a reason about accounts or the deadline: reasons is empty or Over budget alone
C25_TimeWithinDeadline ==
    \A i \in Ranked :
        /\ QLe(sortedPlatforms[i].rawGenerationTimeDays, inputs.deadline)
        /\ ~\E r \in 1..Len(sortedPlatforms[i].reasons) :
                IncludesAccounts(sortedPlatforms[i].reasons[r])
        /\ sortedPlatforms[i].reasons \in {<<>>, <<OverBudget>>}

\* C25 witness: records that need several accounts, one over budget and one
\* with no reason, and a record whose time is exactly the deadline
C25_Witness ==
    /\ Calculated
    /\ \E i, j, k \in Ranked :
           /\ QGe(sortedPlatforms[i].accountsNeeded, I(2))
           /\ sortedPlatforms[i].reasons = <<OverBudget>>
           /\ QGe(sortedPlatforms[j].accountsNeeded, I(2))
           /\ sortedPlatforms[j].reasons = <<>>
           /\ QGt(SingleAccountDays(sortedPlatforms[k]), inputs.deadline)
           /\ QLt(sortedPlatforms[k].rawGenerationTimeDays, inputs.deadline)

AffordableQuotaPlan(p) ==
    /\ PlanOf(p).quotaUnit # "unlimited"
    /\ QGt(PlanOf(p).monthlyCost, I(0))
    /\ QGe(inputs.budget, PlanOf(p).monthlyCost)

\* C28: in duration mode the total cost of a record is within the budget: the
\* price of the whole subscriptions the budget pays for a quota-based plan,
\* the monthly price for an affordable unlimited flat-fee plan, else the budget
C28_DurationModeTotalCost ==
    Calculated /\ inputs.calcMode = "duration" =>
        \A i \in Ranked :
            LET p == sortedPlatforms[i]
            IN  /\ QLe(p.totalCost, inputs.budget)
                /\ p.totalCost =
                       IF AffordableQuotaPlan(p)
                       THEN QMul(QFloor(QDiv(inputs.budget, PlanOf(p).monthlyCost)),
                                 PlanOf(p).monthlyCost)
                       ELSE IF AffordableFlatFee(p) THEN PlanOf(p).monthlyCost
                       ELSE inputs.budget
                /\ AffordableQuotaPlan(p)
                   => p.totalCost = QMul(p.plansAffordable, PlanOf(p).monthlyCost)

\* C28 witness: duration mode with the three cases: a quota-based plan paid
\* several times with budget left over, an affordable flat-fee plan at its
\* monthly price, and a record of 0 minutes that costs the whole budget
C28_Witness ==
    /\ Calculated /\ inputs.calcMode = "duration"
    /\ QGt(inputs.budget, I(0))
    /\ \E i \in Ranked :
           /\ AffordableQuotaPlan(sortedPlatforms[i])
           /\ QGe(sortedPlatforms[i].plansAffordable, I(2))
           /\ QLt(sortedPlatforms[i].totalCost, inputs.budget)
    /\ \E j \in Ranked :
           /\ AffordableFlatFee(sortedPlatforms[j])
           /\ sortedPlatforms[j].totalCost = PlanOf(sortedPlatforms[j]).monthlyCost
    /\ \E k \in Ranked :
           /\ sortedPlatforms[k].achievableDuration = I(0)
           /\ sortedPlatforms[k].totalCost = inputs.budget
           /\ QGt(PlanOf(sortedPlatforms[k]).monthlyCost, inputs.budget)

\* C29: in duration mode a record that achieves the deadline-derived ceiling
\* on a platform with setup days needs at least 2 accounts: one account would
\* take longer than the deadline
C29_CeilingNeedsAccounts ==
    Calculated /\ inputs.calcMode = "duration" =>
        \A i \in Ranked :
            /\ sortedPlatforms[i].achievableDuration = DeadlineCeiling(sortedPlatforms[i])
            /\ QGt(PlatformOf(sortedPlatforms[i]).setupDays, I(0))
            => /\ QGe(sortedPlatforms[i].accountsNeeded, I(2))
               /\ QGt(SingleAccountDays(sortedPlatforms[i]), inputs.deadline)

\* C29 witness: duration mode with a record at the ceiling that needs exactly
\* 2 accounts and a record below the ceiling that needs one
C29_Witness ==
    /\ Calculated /\ inputs.calcMode = "duration"
    /\ \E i, j \in Ranked :
           /\ sortedPlatforms[i].achievableDuration = DeadlineCeiling(sortedPlatforms[i])
           /\ sortedPlatforms[i].accountsNeeded = I(2)
           /\ QGt(sortedPlatforms[j].achievableDuration, I(0))
           /\ QLt(sortedPlatforms[j].achievableDuration,
                  DeadlineCeiling(sortedPlatforms[j]))
           /\ sortedPlatforms[j].accountsNeeded = I(1)

\* the entries the primary pick is compared with: the feasible ones, or all
\* of them when none is feasible
Contenders == IF FeasibleRanked # {} THEN FeasibleRanked ELSE Ranked

\* C30: after a calculation the primary pick is the first entry of the ranked
\* list, and no feasible entry (no entry, when none is feasible) has a higher
\* score
C30_PrimaryIsTopScore ==
    Calculated =>
        /\ sortedPlatforms # <<>>
        /\ primaryRecommendation = sortedPlatforms[1]
        /\ \A i \in Contenders :
               QGe(primaryRecommendation.score, sortedPlatforms[i].score)

\* C30 witness: a ranked list of feasible and infeasible entries whose first
\* entry is the primary pick and outscores another feasible entry
C30_Witness ==
    /\ Calculated
    /\ FeasibleRanked # {} /\ FeasibleRanked # Ranked
    /\ primaryRecommendation = sortedPlatforms[1]
    /\ \E i \in FeasibleRanked :
           QLt(sortedPlatforms[i].score, primaryRecommendation.score)

(***************************************************************************)
(* Properties of calculate over other data tables.                         *)
(***************************************************************************)
\* the indices of the triples of the data table
TripleIndices == 1..Len(Triples(catalog))

\* the entry calculate emits for the k-th triple, and where it is ranked
EntryOf(k) ==
    ScoreOption(Triples(catalog)[k][1], Triples(catalog)[k][2],
                Triples(catalog)[k][3], inputs)
RankOf(k) == CHOOSE i \in Ranked : sortedPlatforms[i] = EntryOf(k)

\* the plan of the k-th triple has an empty quota and is not flagged unlimited
OnEmptyQuota(k) ==
    /\ Triples(catalog)[k][2].quota = I(0)
    /\ Triples(catalog)[k][2].quotaUnit # "unlimited"

\* triples a and b differ in the quota of the plan and in nothing else
SameButQuota(a, b) ==
    /\ Triples(catalog)[a][1].platformName = Triples(catalog)[b][1].platformName
    /\ Triples(catalog)[a][3] = Triples(catalog)[b][3]
    /\ [Triples(catalog)[a][2] EXCEPT !.quota = I(0)] =
       [Triples(catalog)[b][2] EXCEPT !.quota = I(0)]

\* C11: a triple on a plan with quota 0 that is not unlimited has an infinite
\* cost per second, and is ranked after a triple that differs from it only in
\* having a finite cost per second
C11_InfiniteCostRanksLast ==
    Calculated =>
        \A a \in TripleIndices :
            OnEmptyQuota(a)
            => /\ sortedPlatforms[RankOf(a)].costPerSecondUSD = Infinity
               /\ \A b \in TripleIndices :
                      /\ SameButQuota(a, b)
                      /\ IsFinite(sortedPlatforms[RankOf(b)].costPerSecondUSD)
                      => RankOf(b) < RankOf(a)

\* the triple of the data table an entry was computed from; the two copies
\* of a plan in a table differ in the quota alone
TripleIn(p) ==
    Triples(catalog)[CHOOSE k \in TripleIndices :
                        /\ Triples(catalog)[k][1].platformName = p.platformName
                        /\ Triples(catalog)[k][2].planName = p.planName
                        /\ Triples(catalog)[k][3] = p.option]
PlatformIn(p) == TripleIn(p)[1]
PlanIn(p) == TripleIn(p)[2]

\* C13: the cost per second of every triple is non-negative, and is exactly
\* the average of the option's cost when the cost unit is per_second, whatever
\* the quota and the quota unit of the plan
C13_CostPerSecond ==
    Calculated =>
        \A i \in Ranked :
            /\ QGe(sortedPlatforms[i].costPerSecondUSD, I(0))
            /\ sortedPlatforms[i].option.costUnit = "per_second"
               => sortedPlatforms[i].costPerSecondUSD =
                      getAverage(sortedPlatforms[i].option.cost)

\* C13 witness: a per_second option on a plan with an empty quota that is not
\* unlimited, priced at the average of its cost
C13_Witness ==
    /\ Calculated
    /\ \E a \in TripleIndices :
           /\ OnEmptyQuota(a)
           /\ Triples(catalog)[a][3].costUnit = "per_second"
           /\ sortedPlatforms[RankOf(a)].costPerSecondUSD =
                  getAverage(Triples(catalog)[a][3].cost)
           /\ QGt(sortedPlatforms[RankOf(a)].costPerSecondUSD, I(0))

\* the days one account needs for the minutes, at the given parallelism
DaysAtCap(minutes, option, plan, platform, cap) ==
    QAdd(QDiv(QDiv(QDiv(QMul(QCeil(QDiv(QMul(minutes, I(60)), option.maxDurationSec)),
                             plan.avgTimePerClipMin),
                        I(60)),
                   cap),
              I(8)),
         platform.setupDays)

\* the minutes that fit in the deadline at the given parallelism
CeilingAtCap(option, plan, cap) ==
    QDiv(QMul(QMul(QDiv(QMul(inputs.deadline, I(480)), plan.avgTimePerClipMin), cap),
              option.maxDurationSec),
         I(60))

\* the time estimate and the deadline ceiling of the k-th triple are those of
\* the given parallelism
TimeUsesCap(k, cap) ==
    LET t == Triples(catalog)[k]
        p == sortedPlatforms[RankOf(k)]
    IN  /\ QGt(TargetMinutes(p), I(0))
           => QMul(p.rawGenerationTimeDays, p.accountsNeeded) =
                  DaysAtCap(TargetMinutes(p), t[3], t[2], t[1], cap)
        /\ inputs.calcMode = "duration"
           => p.achievableDuration =
                  QMin(QDiv(DurationModeBudget(t[3], t[2], inputs.budget).totalVideoSeconds,
                            I(60)),
                       CeilingAtCap(t[3], t[2], cap))

\* C19: the time estimate and the duration-mode deadline ceiling use the API
\* cap exactly when the platform's API tier is not 'No', the expertise is
\* intermediate or expert and the plan defines an API cap, and the GUI cap
\* otherwise
C19_TimeParallelism ==
    Calculated =>
        \A k \in TripleIndices :
            TimeUsesCap(k, ApiOrGuiCap(Triples(catalog)[k][2], Triples(catalog)[k][1],
                                       inputs.expertise))

\* the plan of the k-th triple has an API cap other than its GUI cap
HasOtherApiCap(k) ==
    /\ "maxParallelAPI" \in DOMAIN Triples(catalog)[k][2]
    /\ Triples(catalog)[k][2].maxParallelAPI # Triples(catalog)[k][2].maxParallel

\* C19 witness: on a platform of tier Limited or Enterprise an expert's time
\* estimate uses an API cap that differs from the GUI cap
C19_Witness ==
    /\ Calculated /\ inputs.expertise = "expert"
    /\ \E k \in TripleIndices :
           /\ Triples(catalog)[k][1].apiAvailable \in {"Limited", "Enterprise"}
           /\ HasOtherApiCap(k)
           /\ QGt(TargetMinutes(sortedPlatforms[RankOf(k)]), I(0))
           /\ TimeUsesCap(k, Triples(catalog)[k][2].maxParallelAPI)
           /\ ~TimeUsesCap(k, Triples(catalog)[k][2].maxParallel)

\* the part of an entry's score that grows with speedCost: the score less the
\* score the same entry has with speedCost 0
SpeedTerm(k) ==
    LET t == Triples(catalog)[k]
        p == sortedPlatforms[RankOf(k)]
    IN  QSub(p.score,
             Score(t[1], t[2], t[3], [inputs EXCEPT !.speedCost = I(0)], p,
                   p.feasible, p.qualityScore, p.costPerSecondUSD))

\* the API cap when the tier is exactly 'Yes', the expertise is not beginner
\* and the plan defines an API cap, else the GUI cap
FullTierCap(plan, platform, expertise) ==
    IF /\ platform.apiAvailable = "Yes"
       /\ expertise # "beginner"
       /\ "maxParallelAPI" \in DOMAIN plan
    THEN plan.maxParallelAPI
    ELSE plan.maxParallel

\* C20: the speed term of the score is effectiveParallelism * 0.5 *
\* (speedCost / 100), with the API cap only on a platform of tier 'Yes', for a
\* user who is not a beginner, on a plan that defines an API cap
C20_SpeedTerm ==
    Calculated =>
        \A k \in TripleIndices :
            SpeedTerm(k) =
                QMul(QMul(FullTierCap(Triples(catalog)[k][2], Triples(catalog)[k][1],
                                      inputs.expertise),
                          Q(1, 2)),
                     QDiv(inputs.speedCost, I(100)))

\* C20 witness: on a platform of tier Limited or Enterprise the score of an
\* expert's triple uses the GUI cap while its time estimate uses the API cap
C20_Witness ==
    /\ Calculated /\ inputs.expertise = "expert" /\ QGt(inputs.speedCost, I(0))
    /\ \E k \in TripleIndices :
           /\ Triples(catalog)[k][1].apiAvailable \in {"Limited", "Enterprise"}
           /\ HasOtherApiCap(k)
           /\ SpeedTerm(k) = QMul(QMul(Triples(catalog)[k][2].maxParallel, Q(1, 2)),
                                  QDiv(inputs.speedCost, I(100)))
           /\ QGt(TargetMinutes(sortedPlatforms[RankOf(k)]), I(0))
           /\ QMul(sortedPlatforms[RankOf(k)].rawGenerationTimeDays,
                   sortedPlatforms[RankOf(k)].accountsNeeded) =
                  DaysAtCap(TargetMinutes(sortedPlatforms[RankOf(k)]),
                            Triples(catalog)[k][3], Triples(catalog)[k][2],
                            Triples(catalog)[k][1],
                            Triples(catalog)[k][2].maxParallelAPI)

(***************************************************************************)
(* Properties of the form: the comparison, the toggle and the effect.      *)
(***************************************************************************)
\* the percentage of a difference against its baseline: the share saved when
\* the difference is not negative (0 over a zero baseline), else the share
\* added, infinite over a zero baseline
PercentOfBaseline(difference, baseline) ==
    IF QGe(difference, I(0))
    THEN IF baseline = I(0) THEN I(0)
         ELSE QMul(QDiv(difference, baseline), I(100))
    ELSE IF baseline = I(0) THEN Infinity
         ELSE QMul(QDiv(QNeg(difference), baseline), I(100))

\* C22: the summary is rendered only for a feasible primary pick, and its two
\* cards show the percentage of traditionalCost - totalCost against
\* traditionalCost and of traditionalTime - rawGenerationTimeDays against
\* traditionalTime, as savings when the difference is not negative and as an
\* increase otherwise
C22_ROISummary ==
    /\ RenderedROI # Null
       => /\ primaryRecommendation # Null /\ primaryRecommendation.feasible
          /\ RenderedROI.costCard.value =
                PercentOfBaseline(QSub(inputs.traditionalCost,
                                       primaryRecommendation.totalCost),
                                  inputs.traditionalCost)
          /\ RenderedROI.costCard.title = "Cost Savings"
                <=> QGe(inputs.traditionalCost, primaryRecommendation.totalCost)
          /\ RenderedROI.timeCard.value =
                PercentOfBaseline(QSub(inputs.traditionalTime,
                                       primaryRecommendation.rawGenerationTimeDays),
                                  inputs.traditionalTime)
          /\ RenderedROI.timeCard.title = "Time Savings"
                <=> QGe(inputs.traditionalTime,
                        primaryRecommendation.rawGenerationTimeDays)
    /\ /\ inputs.calcMode = "cost" /\ inputs.enableComparison
       /\ primaryRecommendation # Null /\ primaryRecommendation.feasible
       => RenderedROI # Null

\* C22 witness: a summary with a finite cost increase and an infinite time
\* increase over a traditional time of 0
C22_Witness ==
    /\ Calculated /\ RenderedROI # Null
    /\ RenderedROI.costCard.title = "Cost Increase"
    /\ IsFinite(RenderedROI.costCard.value)
    /\ QGt(RenderedROI.costCard.value, I(0))
    /\ inputs.traditionalTime = I(0)
    /\ RenderedROI.timeCard = SavingsCard("Time Increase", Infinity)

\* C23: after any sequence of changes the comparison is on only in cost mode,
\* and a switch from duration mode to cost mode does not turn it on
C23_ComparisonOnlyInCostMode ==
    /\ [](inputs.enableComparison => inputs.calcMode = "cost")
    /\ [][inputs.calcMode = "duration" /\ inputs'.calcMode = "cost"
             => ~inputs'.enableComparison]_vars

\* C23 witness: duration mode with the comparison off and a traditional cost
\* that was edited, which takes cost mode with the comparison on
C23_Witness ==
    /\ Calculated
    /\ inputs.calcMode = "duration"
    /\ ~inputs.enableComparison
    /\ inputs.traditionalCost # InitialInputs.traditionalCost

\* the ranked list and the primary pick are those of one calculation on the
\* current inputs
ResultOfCurrentInputs ==
    /\ sortedPlatforms = SortScored(scoredOptions(inputs))
    /\ primaryRecommendation = PrimaryPick(sortedPlatforms)

\* C24: a change of the inputs schedules the calculation, which eventually
\* runs; once it has run, the ranked list and the primary pick are both the
\* result of the calculation on the current inputs
C24_Recalculated ==
    /\ [](Calculated => ResultOfCurrentInputs)
    /\ (effectPending ~> Calculated)

\* C24 witness: the results of a calculation in duration mode on a budget of
\* 20, both changed from the initial inputs
C24_Witness ==
    /\ Calculated
    /\ inputs.calcMode = "duration" /\ inputs.budget = I(20)
    /\ primaryRecommendation # Null
    /\ QGt(primaryRecommendation.achievableDuration, I(0))
    /\ \A i \in Ranked : QLe(sortedPlatforms[i].totalCost, I(20))

=============================================================================
